---- MODULE Spec2Model ----
(***************************************************************************)
(* Model of the SQL front end of utils/tscli.py: TypesenseCLI.execute_sql, *)
(* its helper execute_sql_params, the WHERE translator _transpile_where    *)
(* and the session command do_connect.                                     *)
(*                                                                         *)
(* Text is modelled as a sequence of one-character strings so that the     *)
(* substring tests and the regular-expression rewrite of the retry path    *)
(* are computed character by character, as Python computes them.           *)
(***************************************************************************)
EXTENDS Integers, Sequences, FiniteSets, TLC

VARIABLES
    current_collection, \* self.current_collection ("" models None)
    pc,                 \* "prompt" | "search" (line 398) | "retry_search" (line 454) | "returned"
    stmt,               \* the parsed statement handed to execute_sql
    collection_name,    \* local of execute_sql
    include_fields,     \* local of execute_sql
    is_star,            \* local of execute_sql
    query_params,       \* local of execute_sql: the request dictionary
    msg,                \* local of the except block: str(e) of the first failure
    requests,           \* the search requests sent for the current statement
    responses,          \* the search service's answers to them
    outcome             \* what the last command printed on the console

vars == <<current_collection, pc, stmt, collection_name, include_fields,
          is_star, query_params, msg, requests, responses, outcome>>

----------------------------------------------------------------------------
(* Bounds of the model.                                                    *)

MaxWhereNodes == 2   \* leaves of a WHERE tree handed to execute_sql
MaxTreeLeaves == 3   \* leaves of a WHERE tree handed to _transpile_where alone
MaxSelect == 2       \* length of a select list
MaxHits == 1         \* hits in a search response

----------------------------------------------------------------------------
(* Text.                                                                   *)

Letters ==
    {"a","b","c","d","e","f","g","h","i","j","k","l","m",
     "n","o","p","q","r","s","t","u","v","w","x","y","z",
     "A","B","C","D","E","F","G","H","I","J","K","L","M",
     "N","O","P","Q","R","S","T","U","V","W","X","Y","Z"}

Digits == {"0","1","2","3","4","5","6","7","8","9"}

\* the characters the regular expression class [\w_] accepts
WordChars == Letters \cup Digits \cup {"_"}

\* Python's  sub in s
Contains(s, sub) ==
    \E i \in 0..(Len(s) - Len(sub)) : SubSeq(s, i + 1, i + Len(sub)) = sub

\* s[i:i+len(sub)] == sub
HasAt(s, i, sub) ==
    /\ i + Len(sub) - 1 <= Len(s)
    /\ SubSeq(s, i, i + Len(sub) - 1) = sub

RECURSIVE Join(_, _)
\* Python's  sep.join(parts)
Join(parts, sep) ==
    IF parts = <<>> THEN <<>>
    ELSE IF Len(parts) = 1 THEN parts[1]
    ELSE parts[1] \o sep \o Join(Tail(parts), sep)

STAR_Q == <<"*">>
AND_SEP == <<" ","&","&"," ">>
OR_SEP == <<" ","|","|"," ">>
COMMA == <<",">>
COLON == <<":">>
OP_EQ == <<":","=">>
OP_GT == <<":",">">>
OP_LT == <<":","<">>
OP_GTE == <<":",">","=">>
OP_LTE == <<":","<","=">>
OP_NEQ == <<":","!","=">>
EQ_NULL == <<":","=","n","u","l","l">>
NEQ_NULL == <<":","!","=","n","u","l","l">>
ASC == <<":","a","s","c">>
DESC == <<":","d","e","s","c">>

\* the substrings execute_sql looks for
NOT_AN_INT32 == <<"N","o","t"," ","a","n"," ","i","n","t","3","2">>
INVALID_COMPARATOR ==
    <<"i","n","v","a","l","i","d"," ","c","o","m","p","a","r","a","t","o","r">>
BANG_EQ_NULL == <<"!","=","n","u","l","l">>
NUMERIC_RANGE == <<":",">","="," ","-","2","0","0","0","0","0","0","0","0","0">>

RECURSIVE WordRunEnd(_, _)
\* last index of the run of word characters that starts at s[i]
WordRunEnd(s, i) ==
    IF i < Len(s) /\ s[i + 1] \in WordChars THEN WordRunEnd(s, i + 1) ELSE i

RECURSIVE re_sub_from(_, _)
\* re.sub(r'([\w_]+):!=null', r'\1:>= -2000000000', s), scanning from s[i]:
\* leftmost, greedy, non-overlapping matches; unmatched text is copied.
re_sub_from(s, i) ==
    IF i > Len(s) THEN <<>>
    ELSE IF s[i] \in WordChars
    THEN LET j == WordRunEnd(s, i) IN
         IF HasAt(s, j + 1, NEQ_NULL)
         THEN SubSeq(s, i, j) \o NUMERIC_RANGE
                  \o re_sub_from(s, j + 1 + Len(NEQ_NULL))
         ELSE SubSeq(s, i, j) \o re_sub_from(s, j + 1)
    ELSE <<s[i]>> \o re_sub_from(s, i + 1)

re_sub(s) == re_sub_from(s, 1)

----------------------------------------------------------------------------
(* The parser's expression nodes: kind is the sqlglot class, name is the   *)
(* node's .name text, args are its children (this, expression).            *)

Node(kind, name, args) == [kind |-> kind, name |-> name, args |-> args]

Column(f) == Node("Column", f, <<>>)
Literal(v) == Node("Literal", v, <<>>)
Null == Node("Null", <<>>, <<>>)
Boolean == Node("Boolean", <<>>, <<>>)
Binary(kind, l, r) == Node(kind, <<>>, <<l, r>>)
Not(x) == Node("Not", <<>>, <<x>>)
Paren(x) == Node("Paren", <<>>, <<x>>)

\* the result of a translation: a filter string, or the ValueError raised
Ok(s) == [ok |-> TRUE, s |-> s, err |-> ""]
ValueError(kind) == [ok |-> FALSE, s |-> <<>>, err |-> kind]

ComparisonOps ==
    [EQ |-> OP_EQ, GT |-> OP_GT, LT |-> OP_LT,
     GTE |-> OP_GTE, LTE |-> OP_LTE, NEQ |-> OP_NEQ, Like |-> COLON]

RECURSIVE _transpile_where_partial(_)
\* _transpile_where that keeps the left filter when the right child fails
_transpile_where_partial(node) ==
    IF node.kind \in {"And", "Or"}
    THEN LET l == _transpile_where_partial(node.args[1]) IN
         IF ~l.ok THEN l
         ELSE LET r == _transpile_where_partial(node.args[2]) IN
              IF ~r.ok THEN l
              ELSE Ok(l.s \o (IF node.kind = "And" THEN AND_SEP ELSE OR_SEP) \o r.s)
    ELSE IF node.kind \in DOMAIN ComparisonOps
    THEN Ok(node.args[1].name \o ComparisonOps[node.kind] \o node.args[2].name)
    ELSE IF node.kind = "Is" /\ node.args[2].kind = "Null"
    THEN Ok(node.args[1].name \o EQ_NULL)
    ELSE IF /\ node.kind = "Not"
            /\ node.args[1].kind = "Is"
            /\ node.args[1].args[2].kind = "Null"
    THEN Ok(node.args[1].args[1].name \o NEQ_NULL)
    ELSE ValueError(node.kind)

RECURSIVE _transpile_where_parens(_)
\* _transpile_where that parenthesises an OR
_transpile_where_parens(node) ==
    IF node.kind \in {"And", "Or"}
    THEN LET l == _transpile_where_parens(node.args[1]) IN
         IF ~l.ok THEN l
         ELSE LET r == _transpile_where_parens(node.args[2]) IN
              IF ~r.ok THEN r
              ELSE IF node.kind = "And" THEN Ok(l.s \o AND_SEP \o r.s)
              ELSE Ok(<<"(">> \o l.s \o OR_SEP \o r.s \o <<")">>)
    ELSE IF node.kind \in DOMAIN ComparisonOps
    THEN Ok(node.args[1].name \o ComparisonOps[node.kind] \o node.args[2].name)
    ELSE IF node.kind = "Is" /\ node.args[2].kind = "Null"
    THEN Ok(node.args[1].name \o EQ_NULL)
    ELSE IF /\ node.kind = "Not"
            /\ node.args[1].kind = "Is"
            /\ node.args[1].args[2].kind = "Null"
    THEN Ok(node.args[1].args[1].name \o NEQ_NULL)
    ELSE ValueError(node.kind)

RECURSIVE _transpile_where_any_not(_)
\* _transpile_where with the generic NOT mapping of line 529
_transpile_where_any_not(node) ==
    IF node.kind \in {"And", "Or"}
    THEN LET l == _transpile_where_any_not(node.args[1]) IN
         IF ~l.ok THEN l
         ELSE LET r == _transpile_where_any_not(node.args[2]) IN
              IF ~r.ok THEN r
              ELSE Ok(l.s \o (IF node.kind = "And" THEN AND_SEP ELSE OR_SEP) \o r.s)
    ELSE IF node.kind \in DOMAIN ComparisonOps
    THEN Ok(node.args[1].name \o ComparisonOps[node.kind] \o node.args[2].name)
    ELSE IF node.kind = "Is" /\ node.args[2].kind = "Null"
    THEN Ok(node.args[1].name \o EQ_NULL)
    ELSE IF /\ node.kind = "Not"
            /\ node.args[1].kind = "Is"
            /\ node.args[1].args[2].kind = "Null"
    THEN Ok(node.args[1].args[1].name \o NEQ_NULL)
    ELSE IF node.kind = "Not"
    THEN LET x == _transpile_where_any_not(node.args[1]) IN
         IF ~x.ok THEN x ELSE Ok(<<"!","(">> \o x.s \o <<")">>)
    ELSE ValueError(node.kind)

RECURSIVE _transpile_where_one_sep(_)
\* _transpile_where with the separator of line 485 copied to line 488
_transpile_where_one_sep(node) ==
    IF node.kind \in {"And", "Or"}
    THEN LET l == _transpile_where_one_sep(node.args[1]) IN
         IF ~l.ok THEN l
         ELSE LET r == _transpile_where_one_sep(node.args[2]) IN
              IF ~r.ok THEN r
              ELSE Ok(l.s \o AND_SEP \o r.s)
    ELSE IF node.kind \in DOMAIN ComparisonOps
    THEN Ok(node.args[1].name \o ComparisonOps[node.kind] \o node.args[2].name)
    ELSE IF node.kind = "Is" /\ node.args[2].kind = "Null"
    THEN Ok(node.args[1].name \o EQ_NULL)
    ELSE IF /\ node.kind = "Not"
            /\ node.args[1].kind = "Is"
            /\ node.args[1].args[2].kind = "Null"
    THEN Ok(node.args[1].args[1].name \o NEQ_NULL)
    ELSE ValueError(node.kind)

RECURSIVE _transpile_where(_)
_transpile_where(node) ==
    IF node.kind \in {"And", "Or"}
    THEN LET l == _transpile_where(node.args[1]) IN
         IF ~l.ok THEN l
         ELSE LET r == _transpile_where(node.args[2]) IN
              IF ~r.ok THEN r
              ELSE Ok(l.s \o (IF node.kind = "And" THEN AND_SEP ELSE OR_SEP) \o r.s)
    ELSE IF node.kind \in DOMAIN ComparisonOps
    THEN Ok(node.args[1].name \o ComparisonOps[node.kind] \o node.args[2].name)
    ELSE IF node.kind = "Is" /\ node.args[2].kind = "Null"
    THEN Ok(node.args[1].name \o EQ_NULL)
    ELSE IF /\ node.kind = "Not"
            /\ node.args[1].kind = "Is"
            /\ node.args[1].args[2].kind = "Null"
    THEN Ok(node.args[1].args[1].name \o NEQ_NULL)
    ELSE ValueError(node.kind)

----------------------------------------------------------------------------
(* Python conversions used by execute_sql.                                 *)

DigitValue ==
    [c \in Digits |->
        CASE c = "0" -> 0 [] c = "1" -> 1 [] c = "2" -> 2 [] c = "3" -> 3
          [] c = "4" -> 4 [] c = "5" -> 5 [] c = "6" -> 6 [] c = "7" -> 7
          [] c = "8" -> 8 [] c = "9" -> 9]

DigitChar == <<"1","2","3","4","5","6","7","8","9">>

RECURSIVE DigitsValue(_, _)
DigitsValue(s, acc) ==
    IF s = <<>> THEN acc ELSE DigitsValue(Tail(s), acc * 10 + DigitValue[Head(s)])

AllDigits(s) == s # <<>> /\ \A i \in 1..Len(s) : s[i] \in Digits

\* int(text): an optionally signed run of decimal digits, else ValueError
py_int(s) ==
    IF AllDigits(s) THEN [ok |-> TRUE, n |-> DigitsValue(s, 0)]
    ELSE IF s # <<>> /\ Head(s) \in {"+", "-"} /\ AllDigits(Tail(s))
    THEN [ok |-> TRUE,
          n |-> IF Head(s) = "-" THEN 0 - DigitsValue(Tail(s), 0)
                ELSE DigitsValue(Tail(s), 0)]
    ELSE [ok |-> FALSE, n |-> 0]

RECURSIVE NatStr(_)
NatStr(n) ==
    IF n < 10 THEN <<(IF n = 0 THEN "0" ELSE DigitChar[n])>>
    ELSE NatStr(n \div 10) \o NatStr(n % 10)

\* a document value: text, an integer, or None
StrVal(s) == [t |-> "str", s |-> s, n |-> 0]
IntVal(n) == [t |-> "int", s |-> <<>>, n |-> n]
NoneVal == [t |-> "None", s |-> <<>>, n |-> 0]

\* str(value)
py_str(v) ==
    IF v.t = "str" THEN v.s
    ELSE IF v.t = "int"
    THEN (IF v.n < 0 THEN <<"-">> \o NatStr(0 - v.n) ELSE NatStr(v.n))
    ELSE <<"N","o","n","e">>

\* a document is an ordered mapping: a sequence of <<key, value>> pairs
doc_keys(doc) == [i \in 1..Len(doc) |-> doc[i][1]]

\* str(doc.get(col)): a missing field is rendered as None is
doc_get_str_none(doc, col) ==
    IF \E i \in 1..Len(doc) : doc[i][1] = col
    THEN py_str(doc[CHOOSE i \in 1..Len(doc) : doc[i][1] = col][2])
    ELSE py_str(NoneVal)

\* str(doc.get(col, ''))
doc_get_str(doc, col) ==
    IF \E i \in 1..Len(doc) : doc[i][1] = col
    THEN py_str(doc[CHOOSE i \in 1..Len(doc) : doc[i][1] = col][2])
    ELSE <<>>

----------------------------------------------------------------------------
(* The console: the message the last command ended with.                   *)

Printed(kind, text) == [kind |-> kind, text |-> text, columns |-> <<>>, rows |-> <<>>]
TablePrinted(columns, rows) ==
    [kind |-> "table", text |-> <<>>, columns |-> columns, rows |-> rows]

NoText == <<>>
NoParams == <<>>
DEFAULT_PER_PAGE == 10
FIRST_PAGE == 1

\* query_params.get('filter_by', '')
get_filter_by(qp) == IF "filter_by" \in DOMAIN qp THEN qp.filter_by ELSE <<>>

\* lines 405-424 and 456-476: the table built from a non-empty hit list
render(hits, fields, star) ==
    LET columns_to_show ==
            IF fields # <<>> /\ ~star THEN fields ELSE doc_keys(hits[1])
        rows == [h \in 1..Len(hits) |->
                    [c \in 1..Len(columns_to_show) |->
                        doc_get_str(hits[h], columns_to_show[c])]]
    IN  IF hits = <<>> THEN Printed("no_results", NoText)
        ELSE TablePrinted(columns_to_show, rows)

----------------------------------------------------------------------------
(* execute_sql up to its first search call (lines 318-398).                *)

RECURSIVE select_fields(_, _)
\* the loop of lines 344-350 over parsed.expressions
select_fields(expressions, acc) ==
    IF expressions = <<>> THEN [include_fields |-> acc, is_star |-> FALSE]
    ELSE IF Head(expressions).kind = "Star"
    THEN [include_fields |-> acc, is_star |-> TRUE]
    ELSE IF Head(expressions).kind = "Column"
    THEN select_fields(Tail(expressions), Append(acc, Head(expressions).name))
    ELSE select_fields(Tail(expressions), acc)

\* lines 377-382
sort_parts(order) ==
    [i \in 1..Len(order) |->
        order[i].name \o (IF order[i].desc THEN DESC ELSE ASC)]

\* first_table that keeps the connected collection when there is one
first_table_current_first(s, current) ==
    IF current # <<>> THEN current
    ELSE IF s.tables # <<>> THEN s.tables[1] ELSE current

\* lines 331-335
first_table(s, current) == IF s.tables # <<>> THEN s.tables[1] ELSE current

\* lines 353-360: the request dictionary before the WHERE clause is read
base_params(sel) ==
    LET p0 == [q |-> STAR_Q, per_page |-> DEFAULT_PER_PAGE, page |-> FIRST_PAGE]
    IN  IF ~sel.is_star /\ sel.include_fields # <<>>
        THEN p0 @@ ("include_fields" :> Join(sel.include_fields, COMMA))
        ELSE p0

\* lines 369-370
with_filter(qp, ts_filter) ==
    IF ts_filter # <<>> THEN qp @@ ("filter_by" :> ts_filter) ELSE qp

\* lines 376-384
with_sort(qp, order) ==
    IF order # <<>> /\ sort_parts(order) # <<>>
    THEN qp @@ ("sort_by" :> Join(sort_parts(order), COMMA))
    ELSE qp

\* with_limit that sends a page size of 0 when the LIMIT does not parse
with_limit_zero(qp, limit) ==
    IF limit # <<>>
    THEN [qp EXCEPT !.per_page =
               IF py_int(limit[1]).ok THEN py_int(limit[1]).n ELSE 0]
    ELSE qp

\* lines 387-392
with_limit(qp, limit) ==
    IF limit # <<>> /\ py_int(limit[1]).ok
    THEN [qp EXCEPT !.per_page = py_int(limit[1]).n]
    ELSE qp

\* lines 353-392
build_params(s, sel, ts_filter) ==
    with_limit(with_sort(with_filter(base_params(sel), ts_filter), s.order), s.limit)

Returned(s, coll, sel, qp, printed) ==
    /\ pc' = "returned"
    /\ stmt' = s
    /\ collection_name' = coll
    /\ include_fields' = sel.include_fields
    /\ is_star' = sel.is_star
    /\ query_params' = qp
    /\ msg' = NoText
    /\ requests' = <<>>
    /\ responses' = <<>>
    /\ outcome' = printed
    /\ UNCHANGED current_collection

NoSelect == [include_fields |-> <<>>, is_star |-> FALSE]

execute_sql(s) ==
    /\ pc = "prompt"
    /\ IF s.parsed = "ParseError"
       THEN Returned(s, <<>>, NoSelect, NoParams, Printed("parse_error", NoText))
       ELSE IF s.parsed # "Select"
       THEN Returned(s, <<>>, NoSelect, NoParams, Printed("not_select", NoText))
       ELSE LET coll == first_table(s, current_collection)
                sel == select_fields(s.expressions, <<>>)
                tr == IF s.where # <<>> THEN _transpile_where(s.where[1])
                      ELSE Ok(<<>>)
            IN  IF coll = <<>>
                THEN Returned(s, coll, NoSelect, NoParams,
                              Printed("no_collection", NoText))
                ELSE IF ~tr.ok
                THEN Returned(s, coll, sel, base_params(sel),
                              Printed("translation_error", NoText))
                ELSE LET qp == build_params(s, sel, tr.s) IN
                     /\ pc' = "search"
                     /\ stmt' = s
                     /\ collection_name' = coll
                     /\ include_fields' = sel.include_fields
                     /\ is_star' = sel.is_star
                     /\ query_params' = qp
                     /\ msg' = NoText
                     /\ requests' = <<[collection |-> coll, params |-> qp]>>
                     /\ responses' = <<>>
                     /\ outcome' = Printed("executing", NoText)
                     /\ UNCHANGED current_collection

----------------------------------------------------------------------------
(* execute_sql after its first search call (lines 398-449) and             *)
(* execute_sql_params (lines 451-476).                                     *)

\* what the search call did: returned results, or raised with a message
Answer(hits) == [ok |-> TRUE, hits |-> hits, text |-> <<>>]
Error(text) == [ok |-> FALSE, hits |-> <<>>, text |-> text]

\* line 429: the failure the numeric fallback answers
numeric_mismatch(e, qp) ==
    Contains(e, NOT_AN_INT32) /\ Contains(get_filter_by(qp), BANG_EQ_NULL)

\* null_comparison that does not look at the filter
null_comparison_any_filter(e, qp) == Contains(e, INVALID_COMPARATOR)

\* line 445: the failure the IS NULL note answers
null_comparison(e, qp) ==
    Contains(e, INVALID_COMPARATOR) /\ Contains(get_filter_by(qp), EQ_NULL)

\* classify without the branch of line 445
classify_without_note(e, qp) ==
    IF numeric_mismatch(e, qp) THEN "retry" ELSE "query_error"

\* lines 429-449: what the except block does with the first failure
classify(e, qp) ==
    IF numeric_mismatch(e, qp) THEN "retry"
    ELSE IF null_comparison(e, qp) THEN "null_note"
    ELSE "query_error"

\* the rewritten filter is computed and not stored in the dictionary
rewrite_filter_dropped(qp) == qp

\* lines 436-437: the dictionary is updated in place
rewrite_filter(qp) == [qp EXCEPT !.filter_by = re_sub(qp.filter_by)]

\* lines 398-424: the first search returned
search_returns(results) ==
    /\ pc = "search"
    /\ pc' = "returned"
    /\ outcome' = render(results.hits, include_fields, is_star)
    /\ responses' = Append(responses, Answer(results.hits))
    /\ UNCHANGED <<current_collection, stmt, collection_name, include_fields,
                   is_star, query_params, msg, requests>>

\* lines 426-449: the first search raised e
search_raises(e) ==
    /\ pc = "search"
    /\ msg' = e
    /\ responses' = Append(responses, Error(e))
    /\ IF classify(e, query_params) = "retry"
       THEN /\ query_params' = rewrite_filter(query_params)
            /\ requests' = Append(requests, [collection |-> collection_name,
                                             params |-> query_params'])
            /\ pc' = "retry_search"
            /\ outcome' = Printed("retrying", NoText)
       ELSE /\ pc' = "returned"
            /\ outcome' = IF classify(e, query_params) = "null_note"
                          THEN Printed("null_note", NoText)
                          ELSE Printed("query_error", e)
            /\ UNCHANGED <<query_params, requests>>
    /\ UNCHANGED <<current_collection, stmt, collection_name, include_fields,
                   is_star>>

\* lines 454-476, 440: the search of execute_sql_params returned
retry_returns(results) ==
    /\ pc = "retry_search"
    /\ pc' = "returned"
    /\ outcome' = render(results.hits, include_fields, is_star)
    /\ responses' = Append(responses, Answer(results.hits))
    /\ UNCHANGED <<current_collection, stmt, collection_name, include_fields,
                   is_star, query_params, msg, requests>>

\* retry_raises that classifies the second failure as the first was
retry_raises_again(e2) ==
    /\ pc = "retry_search"
    /\ responses' = Append(responses, Error(e2))
    /\ IF numeric_mismatch(e2, query_params) /\ Len(requests) < 3
       THEN /\ requests' = Append(requests, [collection |-> collection_name,
                                             params |-> query_params])
            /\ UNCHANGED <<pc, outcome>>
       ELSE /\ pc' = "returned"
            /\ outcome' = Printed("retry_failed", e2)
            /\ UNCHANGED requests
    /\ UNCHANGED <<current_collection, stmt, collection_name, include_fields,
                   is_star, query_params, msg>>

\* retry_raises that prints the message of the first failure
retry_raises_first(e2) ==
    /\ pc = "retry_search"
    /\ pc' = "returned"
    /\ outcome' = Printed("retry_failed", msg)
    /\ responses' = Append(responses, Error(e2))
    /\ UNCHANGED <<current_collection, stmt, collection_name, include_fields,
                   is_star, query_params, msg, requests>>

\* lines 441-443: the search of execute_sql_params raised e2
retry_raises(e2) ==
    /\ pc = "retry_search"
    /\ pc' = "returned"
    /\ outcome' = Printed("retry_failed", e2)
    /\ responses' = Append(responses, Error(e2))
    /\ UNCHANGED <<current_collection, stmt, collection_name, include_fields,
                   is_star, query_params, msg, requests>>

----------------------------------------------------------------------------
(* do_connect (lines 178-190); exists tells whether retrieve() succeeds.   *)

NoStmt ==
    [parsed |-> "None", tables |-> <<>>, expressions |-> <<>>, where |-> <<>>,
     order |-> <<>>, limit |-> <<>>]

do_connect(name, exists) ==
    /\ pc = "prompt"
    /\ current_collection' = IF name # <<>> /\ exists THEN name ELSE current_collection
    /\ outcome' = IF name = <<>> THEN Printed("usage", NoText)
                  ELSE IF exists THEN Printed("connected", name)
                  ELSE Printed("not_exist", name)
    /\ stmt' = NoStmt
    /\ collection_name' = <<>>
    /\ include_fields' = <<>>
    /\ is_star' = FALSE
    /\ query_params' = NoParams
    /\ msg' = NoText
    /\ requests' = <<>>
    /\ responses' = <<>>
    /\ pc' = "returned"

\* run (lines 601-604): the command returned, its locals are gone and the
\* shell prompts for the next command
run ==
    /\ pc = "returned"
    /\ pc' = "prompt"
    /\ stmt' = NoStmt
    /\ collection_name' = <<>>
    /\ include_fields' = <<>>
    /\ is_star' = FALSE
    /\ query_params' = NoParams
    /\ msg' = NoText
    /\ requests' = <<>>
    /\ responses' = <<>>
    /\ outcome' = Printed("prompt", NoText)
    /\ UNCHANGED current_collection

----------------------------------------------------------------------------
(* The inputs.                                                             *)

SeqsUpTo(S, n) == UNION {[1..k -> S] : k \in 0..n}

F_a == <<"a">>
F_b == <<"b">>
F_ok == <<"o","k","?">>      \* a quoted identifier that ends in a non-word character
V_30 == <<"3","0">>
V_US == <<"U","S">>
T_t == <<"t">>
T_u == <<"u">>

Star == Node("Star", <<>>, <<>>)
Alias(x, alias) == Node("Alias", alias, <<x>>)

Stmt(parsed, tables, expressions, where, order, limit) ==
    [parsed |-> parsed, tables |-> tables, expressions |-> expressions,
     where |-> where, order |-> order, limit |-> limit]

\* the trees whose root joins a tree of ls to a tree of rs
Joined(ls, rs) == {Binary(op, l, r) : op \in {"And", "Or"}, l \in ls, r \in rs}

RECURSIVE TreeTable(_, _, _)
\* table[k], k = 1..n: the AND/OR trees with exactly k leaves drawn from leaves
TreeTable(leaves, n, table) ==
    IF Len(table) >= n THEN table
    ELSE LET m == Len(table) + 1
             next == IF m = 1 THEN leaves
                     ELSE UNION {Joined(table[k], table[m - k]) : k \in 1..(m - 1)}
         IN  TreeTable(leaves, n, Append(table, next))

Trees(leaves, n) ==
    LET table == TreeTable(leaves, n, <<>>) IN UNION {table[k] : k \in 1..n}

IsNull(f) == Binary("Is", Column(f), Null)

ExecLeaves ==
    {Binary("GT", Column(F_a), Literal(V_30)),
     IsNull(F_b),
     Not(IsNull(F_a)),
     Not(IsNull(F_ok)),
     Not(Binary("GT", Column(F_a), Literal(V_30)))}

ExecSelects == {<<Star>>, <<Column(F_b), Column(F_a)>>}

\* limit.expression.this of a LIMIT clause: 5, 2.5, 120, ten
ExecLimits ==
    {<<<<"5">>>>, <<<<"2",".","5">>>>, <<<<"1","2","0">>>>, <<<<"t","e","n">>>>}

StmtsExec ==
    {Stmt("ParseError", <<>>, <<>>, <<>>, <<>>, <<>>),
     Stmt("Insert", <<T_t>>, <<>>, <<>>, <<>>, <<>>)}
    \cup {Stmt("Select", tb, e, w, <<>>, <<>>) :
            tb \in {<<>>, <<T_t>>},
            e \in ExecSelects,
            w \in {<<>>} \cup {<<t>> : t \in Trees(ExecLeaves, MaxWhereNodes)}}
    \cup {Stmt("Select", <<T_t>>, <<Star>>, w, <<>>, l) :
            w \in {<<>>, <<Not(IsNull(F_a))>>}, l \in ExecLimits}

MSG_INT32 == <<"4","0","0"," ">> \o NOT_AN_INT32
MSG_COMPARATOR == <<"4","0","0"," ">> \o INVALID_COMPARATOR
MSG_BOTH == NOT_AN_INT32 \o <<";"," ">> \o INVALID_COMPARATOR
MSG_TIMEOUT == <<"t","i","m","e","o","u","t">>

Messages == {MSG_INT32, MSG_COMPARATOR, MSG_BOTH, MSG_TIMEOUT}

Docs ==
    {<< <<F_a, IntVal(30)>>, <<F_b, StrVal(V_US)>> >>,
     << <<F_b, NoneVal>> >>}

Results == {[hits |-> h] : h \in SeqsUpTo(Docs, MaxHits)}

ConnectArgs == {<<>>, T_u}

BuildLeaves ==
    {Binary("EQ", Column(F_a), Literal(V_30)),
     Binary("Like", Column(F_b), Literal(V_US)),
     Not(IsNull(F_b)),
     Not(Binary("EQ", Column(F_a), Literal(V_30)))}

Atoms ==
    {Binary(op, Column(F_a), Literal(V_30)) : op \in DOMAIN ComparisonOps}
    \cup {IsNull(F_a), IsNull(F_ok), Binary("Is", Column(F_a), Boolean)}

NegatedForms ==
    {Not(x) : x \in Atoms \cup {Not(IsNull(F_a)),
                                Binary("And", IsNull(F_a), IsNull(F_b)),
                                Binary("Or", IsNull(F_a), IsNull(F_b)),
                                Paren(IsNull(F_a))}}

RootForms == Atoms \cup NegatedForms \cup {Paren(IsNull(F_a))}

BuildWheres ==
    {<<>>} \cup {<<t>> : t \in Trees(BuildLeaves, MaxTreeLeaves) \cup RootForms}

SelectItems == {Star, Column(F_a), Column(F_b), Alias(Column(F_a), <<"x">>)}
BuildSelects == SeqsUpTo(SelectItems, MaxSelect) \ {<<>>}
BuildTables == {<<>>, <<T_t>>, <<T_t, T_u>>}
BuildOrders ==
    {<<>>, <<[name |-> F_a, desc |-> TRUE], [name |-> F_b, desc |-> FALSE]>>}
BuildLimits == {<<>>, <<<<"5">>>>, <<<<"2",".","5">>>>}

StmtsBuild ==
    {Stmt("Select", <<T_t>>, <<Star>>, w, <<>>, <<>>) : w \in BuildWheres}
    \cup {Stmt("Select", tb, e, <<>>, o, l) :
            tb \in BuildTables, e \in BuildSelects,
            o \in BuildOrders, l \in BuildLimits}
    \cup {Stmt("Select", tb, <<Star>>, <<w>>, <<>>, <<>>) :
            tb \in BuildTables, w \in BuildLeaves}

----------------------------------------------------------------------------
(* The shell running statements against the search service.                *)

Init ==
    /\ current_collection = <<>>
    /\ pc = "prompt"
    /\ stmt = NoStmt
    /\ collection_name = <<>>
    /\ include_fields = <<>>
    /\ is_star = FALSE
    /\ query_params = NoParams
    /\ msg = NoText
    /\ requests = <<>>
    /\ responses = <<>>
    /\ outcome = Printed("help", NoText)

Next ==
    \/ pc = "prompt" /\ \E s \in StmtsExec : execute_sql(s)
    \/ \E r \in Results : search_returns(r)
    \/ \E e \in Messages : search_raises(e)
    \/ \E r \in Results : retry_returns(r)
    \/ \E e \in Messages : retry_raises(e)
    \/ \E name \in ConnectArgs, exists \in BOOLEAN : do_connect(name, exists)
    \/ run

Spec == Init /\ [][Next]_vars

\* the shell building requests, up to the search call
NextBuild ==
    \/ pc = "prompt" /\ \E s \in StmtsBuild : execute_sql(s)
    \/ \E name \in ConnectArgs, exists \in BOOLEAN : do_connect(name, exists)
    \/ run

SpecBuild == Init /\ [][NextBuild]_vars

\* the blocking search call completes: it returns or it raises (the client
\* is built with a connection timeout, line 115)
FairSpec ==
    /\ Spec
    /\ WF_vars((\E r \in Results : search_returns(r))
               \/ (\E e \in Messages : search_raises(e)))
    /\ WF_vars((\E r \in Results : retry_returns(r))
               \/ (\E e \in Messages : retry_raises(e)))

----------------------------------------------------------------------------
(* The two failure signatures, as text.                                     *)

SignatureA(text, filter) ==
    Contains(text, NOT_AN_INT32) /\ Contains(filter, BANG_EQ_NULL)

SignatureB(text, filter) ==
    Contains(text, INVALID_COMPARATOR) /\ Contains(filter, EQ_NULL)

\* the filter of the first request sent ('' when the request has none)
FirstFilter == get_filter_by(requests[1].params)

FirstFailed == responses # <<>> /\ ~responses[1].ok

----------------------------------------------------------------------------
(* C1.                                                                     *)

RequestsBounded ==
    /\ Len(requests) <= 2
    /\ Len(responses) <= Len(requests)
    /\ (pc = "search" => Len(requests) = 1 /\ responses = <<>>)
    /\ (pc = "retry_search" => Len(requests) = 2 /\ Len(responses) = 1)
    /\ (pc = "returned" => Len(responses) = Len(requests))
    /\ (Len(requests) = 2 =>
            FirstFailed /\ SignatureA(responses[1].text, FirstFilter))

\* C1: a SELECT statement that reaches its search call sends one or two
\* requests and then returns to the shell; the second request is sent only
\* after the first failed with Signature A, and no third request is sent,
\* whatever the service answers.
C1_OneOrTwoRequests ==
    /\ []RequestsBounded
    /\ (pc = "search" ~> pc = "returned")

\* the retry failed with Signature A again, and the statement ended there
C1_Witness ==
    /\ pc = "returned"
    /\ Len(requests) = 2
    /\ ~responses[2].ok
    /\ SignatureA(responses[2].text, get_filter_by(requests[2].params))

----------------------------------------------------------------------------
(* C2.                                                                     *)

NullNoteAfterOneRequest ==
    /\ pc = "returned"
    /\ outcome = Printed("null_note", NoText)
    /\ Len(requests) = 1

\* C2 as stated: a first failure matching Signature B ends in the
\* null-comparison note after one request, also when it matches Signature A.
C2_Original ==
    (FirstFailed /\ SignatureB(responses[1].text, FirstFilter))
        => NullNoteAfterOneRequest

\* C2, amended: a first failure that matches Signature B and does not match
\* Signature A ends in the null-comparison note after one request.
C2_NullNoteUnlessNumeric ==
    (/\ FirstFailed
     /\ SignatureB(responses[1].text, FirstFilter)
     /\ ~SignatureA(responses[1].text, FirstFilter))
        => NullNoteAfterOneRequest

\* the error text carries both indicators, the filter only ':=null'
C2_Witness ==
    /\ FirstFailed
    /\ Contains(responses[1].text, NOT_AN_INT32)
    /\ SignatureB(responses[1].text, FirstFilter)
    /\ NullNoteAfterOneRequest

----------------------------------------------------------------------------
(* C3.                                                                     *)

\* every key of the request except the filter
OtherKeys(params) == DOMAIN params \ {"filter_by"}

SameButFilter(p, q) ==
    /\ DOMAIN p = DOMAIN q
    /\ \A k \in OtherKeys(p) : p[k] = q[k]

RECURSIVE RangeTranslation(_)
\* the filter of a supported tree with every '<field>:!=null' written as
\* '<field>:>= -2000000000' and everything else as translated
RangeTranslation(node) ==
    IF node.kind \in {"And", "Or"}
    THEN RangeTranslation(node.args[1])
            \o (IF node.kind = "And" THEN AND_SEP ELSE OR_SEP)
            \o RangeTranslation(node.args[2])
    ELSE IF node.kind = "Not"
    THEN node.args[1].args[1].name \o NUMERIC_RANGE
    ELSE _transpile_where(node).s

\* C3 as stated: the retried request equals the first one but for its
\* filter, which is the first filter with every '<field>:!=null' fragment
\* replaced by '<field>:>= -2000000000', so that no such fragment is left.
C3_Original ==
    Len(requests) = 2 =>
        /\ requests[2].collection = requests[1].collection
        /\ SameButFilter(requests[2].params, requests[1].params)
        /\ requests[2].params.filter_by = RangeTranslation(stmt.where[1])
        /\ ~Contains(requests[2].params.filter_by, NEQ_NULL)

----------------------------------------------------------------------------
(* C4.                                                                     *)

----------------------------------------------------------------------------
(* C5.                                                                     *)

\* C5: when the retried search fails too, the statement returns with the
\* retry-failed message carrying the second failure's text, whatever that
\* text is, and without another request.
C5_SecondFailureReported ==
    (pc = "returned" /\ Len(responses) = 2 /\ ~responses[2].ok) =>
        /\ outcome = Printed("retry_failed", responses[2].text)
        /\ Len(requests) = 2
        /\ SignatureA(responses[1].text, FirstFilter)

\* the second failure differs from the first and matches Signature B
C5_Witness ==
    /\ pc = "returned"
    /\ Len(responses) = 2
    /\ ~responses[2].ok
    /\ responses[2].text # responses[1].text
    /\ SignatureB(responses[2].text, get_filter_by(requests[2].params))
    /\ outcome.kind = "retry_failed"

----------------------------------------------------------------------------
(* C6.                                                                     *)

\* C6: a first failure matching neither signature ends the statement after
\* one request with the query-error message carrying the service's text.
C6_OtherFailurePassedThrough ==
    (/\ FirstFailed
     /\ ~SignatureA(responses[1].text, FirstFilter)
     /\ ~SignatureB(responses[1].text, FirstFilter)) =>
        /\ pc = "returned"
        /\ outcome = Printed("query_error", responses[1].text)
        /\ Len(requests) = 1
        /\ Len(responses) = 1

\* the text has both indicators, and the request no filter
C6_Witness ==
    /\ FirstFailed
    /\ Contains(responses[1].text, NOT_AN_INT32)
    /\ Contains(responses[1].text, INVALID_COMPARATOR)
    /\ "filter_by" \notin DOMAIN requests[1].params
    /\ outcome = Printed("query_error", responses[1].text)

----------------------------------------------------------------------------
(* C7.                                                                     *)

\* the leaves the translator has a rule for
SupportedLeaf(node) ==
    \/ node.kind \in {"EQ", "GT", "LT", "GTE", "LTE", "NEQ", "Like"}
    \/ node.kind = "Is" /\ node.args[2].kind = "Null"
    \/ /\ node.kind = "Not"
       /\ node.args[1].kind = "Is"
       /\ node.args[1].args[2].kind = "Null"

RECURSIVE HasUnsupported(_)
\* some leaf under the AND/OR nodes of the tree has no rule
HasUnsupported(node) ==
    IF node.kind \in {"And", "Or"}
    THEN HasUnsupported(node.args[1]) \/ HasUnsupported(node.args[2])
    ELSE ~SupportedLeaf(node)

\* a SELECT with a collection and a WHERE clause
HasWhere == stmt.parsed = "Select" /\ collection_name # <<>> /\ stmt.where # <<>>

TranslationAborted ==
    /\ pc = "returned"
    /\ outcome.kind = "translation_error"
    /\ requests = <<>>
    /\ "filter_by" \notin DOMAIN query_params

\* C7: a WHERE tree with an unsupported node anywhere under its AND/OR nodes
\* ends the statement with a translation error, no filter and no request,
\* and a statement ending so leaves the current collection as it was.
C7_UnsupportedAborts ==
    /\ []((HasWhere /\ HasUnsupported(stmt.where[1])) => TranslationAborted)
    /\ [][outcome'.kind = "translation_error"
            => current_collection' = current_collection]_vars

\* the unsupported node is the right child of a right child, in a session
\* connected to a collection
C7_Witness ==
    /\ HasWhere
    /\ stmt.where[1].kind \in {"And", "Or"}
    /\ stmt.where[1].args[2].kind \in {"And", "Or"}
    /\ ~HasUnsupported(stmt.where[1].args[1])
    /\ ~HasUnsupported(stmt.where[1].args[2].args[1])
    /\ HasUnsupported(stmt.where[1].args[2].args[2])
    /\ current_collection # <<>>
    /\ TranslationAborted

----------------------------------------------------------------------------
(* C8.                                                                     *)

RECURSIVE SubTrees(_)
\* the tree and every AND/OR subtree and leaf below it
SubTrees(node) ==
    IF node.kind \in {"And", "Or"}
    THEN {node} \cup SubTrees(node.args[1]) \cup SubTrees(node.args[2])
    ELSE {node}

Separator(node) == IF node.kind = "And" THEN <<" ","&","&"," ">> ELSE <<" ","|","|"," ">>

\* C8: the filter sent for a supported tree is, at every AND/OR node of the
\* tree, the left translation, " && " or " || ", and the right translation.
C8_LogicalConcatenation ==
    (HasWhere /\ ~HasUnsupported(stmt.where[1])) =>
        /\ "filter_by" \in DOMAIN query_params
        /\ query_params.filter_by = _transpile_where(stmt.where[1]).s
        /\ \A n \in SubTrees(stmt.where[1]) :
              n.kind \in {"And", "Or"} =>
                 _transpile_where(n).s =
                    _transpile_where(n.args[1]).s \o Separator(n)
                        \o _transpile_where(n.args[2]).s

\* an OR nested in the left of an AND has been translated and sent
C8_Witness ==
    /\ HasWhere
    /\ pc = "search"
    /\ stmt.where[1].kind = "And"
    /\ stmt.where[1].args[1].kind = "Or"
    /\ Contains(requests[1].params.filter_by, <<" ","|","|"," ">>)
    /\ Contains(requests[1].params.filter_by, <<" ","&","&"," ">>)

----------------------------------------------------------------------------
(* C9.                                                                     *)

IsNullCheck(node) == node.kind = "Is" /\ node.args[2].kind = "Null"

FilterSent(text) ==
    /\ pc = "search"
    /\ "filter_by" \in DOMAIN query_params
    /\ query_params.filter_by = text
    /\ requests = <<[collection |-> collection_name, params |-> query_params]>>

\* C9: IS NULL on f translates to "f:=null" and NOT over IS NULL on f to
\* "f:!=null"; NOT over anything else, and IS with another right side, end
\* the statement with a translation error.
C9_NullChecksOnly ==
    HasWhere =>
        LET n == stmt.where[1] IN
        /\ IsNullCheck(n) =>
              FilterSent(n.args[1].name \o <<":","=","n","u","l","l">>)
        /\ (n.kind = "Not" /\ IsNullCheck(n.args[1])) =>
              FilterSent(n.args[1].args[1].name \o <<":","!","=","n","u","l","l">>)
        /\ (n.kind = "Not" /\ ~IsNullCheck(n.args[1])) => TranslationAborted
        /\ (n.kind = "Is" /\ ~IsNullCheck(n)) => TranslationAborted

\* a NOT over a comparison has been refused
C9_Witness ==
    /\ HasWhere
    /\ stmt.where[1].kind = "Not"
    /\ stmt.where[1].args[1].kind = "EQ"
    /\ TranslationAborted

----------------------------------------------------------------------------
(* C10.                                                                    *)

\* the column an item of the select list refers to
BaseName(item) == IF item.kind = "Alias" THEN item.args[1].name ELSE item.name

RECURSIVE Dedup(_, _)
\* the names in order, each kept at its first occurrence
Dedup(names, seen) ==
    IF names = <<>> THEN <<>>
    ELSE IF Head(names) \in seen THEN Dedup(Tail(names), seen)
    ELSE <<Head(names)>> \o Dedup(Tail(names), seen \cup {Head(names)})

HasStar(expressions) == \E i \in 1..Len(expressions) : expressions[i].kind = "Star"

\* C10 as stated: the projection is absent when the select list has a star,
\* and otherwise the base column names of its items in source order, each
\* once.
C10_Original ==
    pc = "search" =>
        IF HasStar(stmt.expressions)
        THEN "include_fields" \notin DOMAIN query_params
        ELSE /\ "include_fields" \in DOMAIN query_params
             /\ query_params.include_fields =
                   Join(Dedup([i \in 1..Len(stmt.expressions) |->
                                  BaseName(stmt.expressions[i])], {}), <<",">>)

----------------------------------------------------------------------------
(* C11.                                                                    *)

\* the collection the statement names, else the connected one
NamedOrConnected ==
    IF stmt.tables # <<>> THEN stmt.tables[1] ELSE current_collection

NoCollectionReported ==
    /\ pc = "returned"
    /\ outcome = Printed("no_collection", NoText)
    /\ requests = <<>>
    /\ query_params = NoParams
    /\ collection_name = <<>>

\* C11: a SELECT uses its first table, else the connected collection; with
\* neither it ends with the no-collection message before any translation or
\* request; and no step of a statement changes the connected collection.
C11_CollectionChoice ==
    /\ [](stmt.parsed = "Select" =>
            IF NamedOrConnected = <<>> THEN NoCollectionReported
            ELSE /\ collection_name = NamedOrConnected
                 /\ outcome.kind # "no_collection"
                 /\ \A i \in 1..Len(requests) :
                       requests[i].collection = NamedOrConnected)
    /\ [][stmt'.parsed = "Select"
            => current_collection' = current_collection]_vars

\* two tables are named in a connected session and the first one is queried
C11_Witness ==
    /\ stmt.parsed = "Select"
    /\ Len(stmt.tables) = 2
    /\ current_collection # <<>>
    /\ current_collection # stmt.tables[1]
    /\ pc = "search"
    /\ requests[1].collection = stmt.tables[1]

----------------------------------------------------------------------------
(* C12.                                                                    *)

RECURSIVE ColumnNames(_)
\* the names of the plain columns of a select list, in source order
ColumnNames(expressions) ==
    IF expressions = <<>> THEN <<>>
    ELSE IF Head(expressions).kind = "Column"
    THEN <<Head(expressions).name>> \o ColumnNames(Tail(expressions))
    ELSE ColumnNames(Tail(expressions))

LastAnswer == responses[Len(responses)]
LastRequest == requests[Len(requests)]

\* the statement returned after a search that succeeded
Succeeded == pc = "returned" /\ responses # <<>> /\ LastAnswer.ok

\* the cell of a document under a column: its value as text, '' when missing
CellOf(doc, col, cell) ==
    IF \A i \in 1..Len(doc) : doc[i][1] # col THEN cell = <<>>
    ELSE \E i \in 1..Len(doc) : doc[i][1] = col /\ cell = py_str(doc[i][2])

\* C12: after a successful search the columns are the projection sent with
\* the request, in its order, or without one the keys of the first hit's
\* document; each row has a cell per column, '' for a missing field; no hits
\* give the no-results message with no columns and rows, and no retry.
C12_ResultProjection ==
    Succeeded =>
        LET hits == LastAnswer.hits IN
        /\ Len(requests) = Len(responses)
        /\ IF hits = <<>>
           THEN outcome = Printed("no_results", NoText)
           ELSE /\ outcome.kind = "table"
                /\ IF "include_fields" \in DOMAIN LastRequest.params
                   THEN /\ outcome.columns = ColumnNames(stmt.expressions)
                        /\ LastRequest.params.include_fields =
                              Join(outcome.columns, <<",">>)
                   ELSE outcome.columns = [i \in 1..Len(hits[1]) |-> hits[1][i][1]]
                /\ Len(outcome.rows) = Len(hits)
                /\ \A h \in 1..Len(hits) :
                      /\ Len(outcome.rows[h]) = Len(outcome.columns)
                      /\ \A c \in 1..Len(outcome.columns) :
                            CellOf(hits[h], outcome.columns[c], outcome.rows[h][c])

\* the projection b, a is shown in that order over a document that has no a
C12_Witness ==
    /\ Succeeded
    /\ outcome.kind = "table"
    /\ outcome.columns = <<F_b, F_a>>
    /\ doc_keys(LastAnswer.hits[1]) = <<F_b>>
    /\ outcome.rows[1][2] = <<>>

----------------------------------------------------------------------------
(* C13.                                                                    *)

\* the token is a run of decimal digits
IsNumber(tok) == tok # <<>> /\ \A i \in 1..Len(tok) : tok[i] \in Digits

RECURSIVE NumberOf(_)
\* the number a run of decimal digits denotes
NumberOf(tok) ==
    IF tok = <<>> THEN 0
    ELSE 10 * NumberOf(SubSeq(tok, 1, Len(tok) - 1))
            + (CHOOSE d \in 0..9 : NatStr(d) = <<tok[Len(tok)]>>)

\* the page size the statement asks for
PageSizeAsked ==
    IF stmt.limit # <<>> /\ IsNumber(stmt.limit[1])
    THEN NumberOf(stmt.limit[1]) ELSE 10

\* C13: a LIMIT that is no integer does not fail the statement: its request
\* is sent with per_page 10; a LIMIT n is sent as per_page n; and every
\* request, the retried one too, has page 1.
C13_LimitLenient ==
    /\ (stmt.parsed = "Select" /\ stmt.limit # <<>>) =>
           /\ requests # <<>>
           /\ outcome.kind \notin {"parse_error", "not_select", "no_collection",
                                   "translation_error"}
    /\ \A i \in 1..Len(requests) :
           /\ requests[i].params.per_page = PageSizeAsked
           /\ requests[i].params.page = 1

\* LIMIT 2.5 was sent with per_page 10, in the first and the retried request
C13_Witness ==
    /\ stmt.limit = <<<<"2",".","5">>>>
    /\ Len(requests) = 2
    /\ requests[1].params.per_page = 10
    /\ requests[2].params.per_page = 10

----------------------------------------------------------------------------
(* C14.                                                                    *)

RECURSIVE InOrderLeaves(_)
\* the leaves of a tree, left to right
InOrderLeaves(node) ==
    IF node.kind \in {"And", "Or"}
    THEN InOrderLeaves(node.args[1]) \o InOrderLeaves(node.args[2])
    ELSE <<node>>

RECURSIVE InOrderOps(_)
\* the AND/OR operators of a tree, left to right
InOrderOps(node) ==
    IF node.kind \in {"And", "Or"}
    THEN InOrderOps(node.args[1]) \o <<node.kind>> \o InOrderOps(node.args[2])
    ELSE <<>>

RECURSIVE Groupings(_, _, _, _)
\* every tree over leaves[i..j] joined by ops[i..j-1] in that order
Groupings(leaves, ops, i, j) ==
    IF i = j THEN {leaves[i]}
    ELSE UNION {{Binary(ops[k], l, r) : l \in Groupings(leaves, ops, i, k),
                                        r \in Groupings(leaves, ops, k + 1, j)}
                : k \in i..(j - 1)}

\* the trees that differ from the tree only in how AND and OR are nested
Regroupings(node) ==
    Groupings(InOrderLeaves(node), InOrderOps(node), 1, Len(InOrderLeaves(node)))
        \ {node}

DistinctLeaves(node) ==
    \A i, j \in 1..Len(InOrderLeaves(node)) :
        i # j => InOrderLeaves(node)[i] # InOrderLeaves(node)[j]

\* a supported tree over distinct leaves has been translated and sent
SupportedSent ==
    /\ HasWhere
    /\ pc = "search"
    /\ ~HasUnsupported(stmt.where[1])
    /\ DistinctLeaves(stmt.where[1])

\* C14 as stated: no tree that differs from the translated one in its
\* nesting of AND and OR translates to the same filter.
C14_Original ==
    SupportedSent =>
        \A t \in Regroupings(stmt.where[1]) :
            _transpile_where(t).s # query_params.filter_by

RECURSIVE Unparenthesised(_)
\* the shape of a WHERE clause written without parentheses: AND binds
\* tighter than OR and both group to the left
Unparenthesised(node) ==
    IF node.kind = "Or"
    THEN /\ Unparenthesised(node.args[1])
         /\ Unparenthesised(node.args[2])
         /\ node.args[2].kind # "Or"
    ELSE IF node.kind = "And"
    THEN /\ Unparenthesised(node.args[1])
         /\ Unparenthesised(node.args[2])
         /\ node.args[1].kind # "Or"
         /\ node.args[2].kind \notin {"And", "Or"}
    ELSE TRUE

SupportedLeaves == {l \in BuildLeaves : SupportedLeaf(l)}

\* the unparenthesised trees of the model, each with its filter
UnparenthesisedFilters ==
    {<<t, _transpile_where(t).s>> :
        t \in {u \in Trees(SupportedLeaves, MaxTreeLeaves) : Unparenthesised(u)}}

\* C14, amended: the filter keeps the order of leaves and operators and not
\* their grouping, so every regrouping of a tree translates to the same
\* filter; two different trees of the unparenthesised shape never do.
C14_OrderKeptNestingLost ==
    SupportedSent =>
        /\ \A t \in Regroupings(stmt.where[1]) :
              _transpile_where(t).s = query_params.filter_by
        /\ Unparenthesised(stmt.where[1]) =>
              \A p \in UnparenthesisedFilters :
                  p[1] # stmt.where[1] => p[2] # query_params.filter_by

\* AND(OR(x, y), z) was sent with the filter of OR(x, AND(y, z))
C14_Witness ==
    /\ SupportedSent
    /\ stmt.where[1].kind = "And"
    /\ stmt.where[1].args[1].kind = "Or"
    /\ stmt.where[1].args[2].kind \notin {"And", "Or"}
    /\ Binary("Or", stmt.where[1].args[1].args[1],
                    Binary("And", stmt.where[1].args[1].args[2],
                                  stmt.where[1].args[2]))
          \in Regroupings(stmt.where[1])
    /\ _transpile_where(
          Binary("Or", stmt.where[1].args[1].args[1],
                       Binary("And", stmt.where[1].args[1].args[2],
                                     stmt.where[1].args[2]))).s
          = query_params.filter_by

====
